---- MODULE Spec2Model ----
(***************************************************************************)
(* Model of c3dev/update_version.py: the VersionUpdater class, which       *)
(* rewrites version strings in the files of a source tree, and the         *)
(* command-line entry point main.                                          *)
(*                                                                         *)
(* Text is a sequence of tokens.  The markers the code looks for           *)
(* ("__version__", "#define PYCOGENT_VERSION", "version", "release") and   *)
(* the line terminator are tokens of their own, so str.startswith is a     *)
(* prefix test on token sequences.  A file on disk is one flat sequence of *)
(* tokens: readlines() splits it after every line terminator and the       *)
(* writer concatenates the lines again.  Line numbers are 0-based as in    *)
(* the Python source; Python's None is the number NoLine.                  *)
(*                                                                         *)
(* Files are opened in text mode: a "\r\n" line end is read as "\n", and   *)
(* "\n" is written as the platform's line end, linesep.  No file holds a   *)
(* lone "\r", and every open(filename, "w") succeeds.  A file that is      *)
(* missing or unreadable is a member of the set bad.                       *)
(***************************************************************************)
EXTENDS Integers, Sequences, FiniteSets, TLC

\* ------------------------------------------------------------------ bounds
\* Longest file content, in chunks (lines), that Init draws for the file(s)
\* under study.
MaxLines == 3
\* How many times main is run on the same tree.
MaxRuns == 2

\* ------------------------------------------------------------------ text
NL == "\\n"
CRLF == "\\r\\n"
\* os.linesep, on POSIX.
linesep == NL
\* Python's None for a line number.
NoLine == -1

startswith(line, prefix) ==
    /\ Len(line) >= Len(prefix)
    /\ SubSeq(line, 1, Len(prefix)) = prefix

\* Index of the first line terminator of s at or after i, or Len(s) if none.
RECURSIVE LineEnd(_, _)
LineEnd(s, i) ==
    IF i >= Len(s) THEN Len(s)
    ELSE IF s[i] \in {NL, CRLF} THEN i
    ELSE LineEnd(s, i + 1)

\* The lines of s, each with its terminator; the last line has none when s
\* does not end with one.
RECURSIVE splitlines(_)
splitlines(s) ==
    IF s = <<>> THEN <<>>
    ELSE LET k == LineEnd(s, 1)
         IN  <<SubSeq(s, 1, k)>> \o splitlines(SubSeq(s, k + 1, Len(s)))

\* What a text-mode read returns for the content s of a file.
decode(s) == [i \in 1..Len(s) |-> IF s[i] = CRLF THEN NL ELSE s[i]]

\* What a text-mode write of text puts in the file.
encode(text) == [i \in 1..Len(text) |-> IF text[i] = NL THEN linesep ELSE text[i]]

\* open(filename).readlines() for a file of content s.
readlines(s) == splitlines(decode(s))

\* "".join(lines)
RECURSIVE join(_)
join(lines) ==
    IF lines = <<>> THEN <<>>
    ELSE Head(lines) \o join(Tail(lines))

\* str.split("."): the components of s between the "." tokens.
RECURSIVE split(_, _)
split(s, cur) ==
    IF s = <<>> THEN <<cur>>
    ELSE IF Head(s) = "." THEN <<cur>> \o split(Tail(s), <<>>)
    ELSE split(Tail(s), Append(cur, Head(s)))

\* repr of a str: quoted, a line terminator written as the two characters \n.
RECURSIVE escape(_)
escape(s) ==
    IF s = <<>> THEN <<>>
    ELSE <<IF Head(s) = NL THEN "\\\\n" ELSE Head(s)>> \o escape(Tail(s))

repr(s) == <<"'">> \o escape(s) \o <<"'">>

RECURSIVE reprItems(_)
reprItems(t) ==
    IF Len(t) = 1 THEN repr(t[1])
    ELSE repr(Head(t)) \o <<", ">> \o reprItems(Tail(t))

\* str of a tuple of str: ('3', '0a2'), and ('3',) for one component.
strTuple(t) ==
    IF Len(t) = 1 THEN <<"(">> \o repr(t[1]) \o <<",)">>
    ELSE <<"(">> \o reprItems(t) \o <<")">>

\* ------------------------------------------------------------------ markers
PyMarker == <<"__version__">>
HeaderMarker == <<"#define PYCOGENT_VERSION">>
VersionMarker == <<"version">>
ReleaseMarker == <<"release">>

\* ------------------------------------------------------------------ state
VARIABLES
    disk,           \* file name -> content, the tree under rootdir
    disk0,          \* the tree before anything ran
    walk,           \* directory -> the order in which os.walk lists its files
    bad,            \* the files that are missing or cannot be read
    version,        \* self.version
    version_short,  \* self.version_short
    mock_run,       \* self.mock_run
    pc,             \* where the caller is: start, main, api, done, exit, IOError
    updater,        \* whether a VersionUpdater object exists
    cat,            \* the category update being executed, or NoCat
    pos,            \* how many files of cat its loop has consumed
    calls,          \* the category updates main has invoked in this run, in order
    invoked,        \* the category updates invoked on the updater so far
    reads,          \* the files opened for reading so far
    writes,         \* the files opened for writing so far
    run,            \* which run of main this is
    after,          \* the tree as the first complete run of main left it
    last            \* what the rule applied last returned, and for which file

vars == <<disk, disk0, walk, bad, version, version_short, mock_run, pc, updater,
          cat, pos, calls, invoked, reads, writes, run, after, last>>

\* ------------------------------------------------------------------ the tree
codes_directory == "src/cogent3"
tests_directory == "tests"
doc_directory == "doc"
includes_directory == "src/include"

\* A file name is <<directory, base name, extension>>.
CodeInit == <<codes_directory, "__init__", ".py">>
CodePyx == <<codes_directory, "align", ".pyx">>
CodeC == <<codes_directory, "util", ".c">>
TestsInit == <<tests_directory, "__init__", ".py">>
TestsData == <<tests_directory, "data", ".txt">>
DocConf == <<doc_directory, "conf", ".py">>
IncPyx == <<includes_directory, "array", ".pyx">>
IncHeader == <<includes_directory, "version", ".h">>

Files == {CodeInit, CodePyx, CodeC, TestsInit, TestsData, DocConf, IncPyx, IncHeader}
Dirs == {codes_directory, tests_directory, doc_directory, includes_directory}
Listing ==
    [d \in Dirs |->
        CASE d = codes_directory -> <<CodeInit, CodePyx, CodeC>>
          [] d = tests_directory -> <<TestsData, TestsInit>>
          [] d = doc_directory -> <<DocConf>>
          [] d = includes_directory -> <<IncPyx, IncHeader>>]

Reverse(s) == [i \in 1..Len(s) |-> s[Len(s) + 1 - i]]

endswith(f, ext) == f[3] = ext

\* ------------------------------------------------------------------ FileClassifier
\* The (file name, file type) pairs a walk yields: listing is the walk's order,
\* types gives the type of each file name, NoType for a file that is skipped.
NoType == "skipped"

TestType(f) == IF endswith(f, ".py") THEN "Python" ELSE NoType

CodeType(f) ==
    IF endswith(f, ".py") THEN "Python"
    ELSE IF endswith(f, ".pyx") THEN "Cython"
    ELSE IF endswith(f, ".c") THEN "C"
    ELSE NoType

IncludeType(f) ==
    IF endswith(f, ".pyx") THEN "Cython"
    ELSE IF endswith(f, ".h") THEN "header"
    ELSE NoType

RECURSIVE Yield(_, _)
Yield(listing, types) ==
    IF listing = <<>> THEN <<>>
    ELSE LET f == Head(listing)
         IN  (IF types[f] = NoType THEN <<>> ELSE <<<<f, types[f]>>>>)
               \o Yield(Tail(listing), types)

_get_test_files == Yield(walk[tests_directory], [f \in Files |-> TestType(f)])
_get_code_files == Yield(walk[codes_directory], [f \in Files |-> CodeType(f)])
_get_doc_files == <<<<DocConf, "Python">>>>
_get_include_files == Yield(walk[includes_directory], [f \in Files |-> IncludeType(f)])

\* ------------------------------------------------------------------ LineRewriteRules
\* A faulty scan: without the break, it ends at the last matching line.
scanLast(lines, marker, lineno) ==
    LET S == {i \in lineno..(Len(lines) - 1) : startswith(lines[i + 1], marker)}
    IN  IF S = {} THEN NoLine ELSE CHOOSE i \in S : \A j \in S : j <= i

\* for lineno, line in enumerate(lines): if line.startswith(marker): break
\* The line number the loop stops at, NoLine when it runs to the end.
RECURSIVE scan(_, _, _)
scan(lines, marker, lineno) ==
    IF lineno >= Len(lines) THEN NoLine
    ELSE IF startswith(lines[lineno + 1], marker) THEN lineno
    ELSE scan(lines, marker, lineno + 1)

\* A faulty Rewrite: it reports every file as found.
RewriteAlwaysFound(lines, lineno, line) ==
    [lines |-> IF lineno = NoLine THEN lines ELSE [lines EXCEPT ![lineno + 1] = line],
     found |-> TRUE]

\* lines with lines[lineno] = line when found, and found_version_line.
Rewrite(lines, lineno, line) ==
    [lines |-> IF lineno = NoLine THEN lines ELSE [lines EXCEPT ![lineno + 1] = line],
     found |-> lineno # NoLine]

\* A faulty replacement line: it does not begin with the marker.
PythonLineBare == <<"version", " = ", "\"">> \o version \o <<"\"", NL>>

PythonLine == <<"__version__", " = ", "\"">> \o version \o <<"\"", NL>>
CythonLine ==
    <<"__version__", " = ", "\"">> \o strTuple(split(version, <<>>)) \o <<"\"", NL>>
HeaderLine == <<"#define PYCOGENT_VERSION", " ", "\"">> \o version \o <<"\"", NL>>
DocVersionLine == <<"version", " = ", "\"">> \o version_short \o <<"\"", NL>>
DocReleaseLine == <<"release", " = ", "\"">> \o version \o <<"\"", NL>>

_update_python_file(lines, filename) ==
    Rewrite(lines, scan(lines, PyMarker, 0), PythonLine)

_update_cython_file(lines, filename) ==
    Rewrite(lines, scan(lines, PyMarker, 0), CythonLine)

_update_header_file(lines, filename) ==
    Rewrite(lines, scan(lines, HeaderMarker, 0), HeaderLine)

_update_c_file(lines, filename) == _update_header_file(lines, filename)

\* The loop of _update_doc_conf_file from line lineno on: the two line numbers
\* when it ends, and how many lines it has looked at.
RECURSIVE docScan(_, _, _, _)
docScan(lines, lineno, versionline, releaseline) ==
    IF lineno >= Len(lines)
    THEN [versionline |-> versionline, releaseline |-> releaseline, scanned |-> lineno]
    ELSE LET line == lines[lineno + 1]
             v == IF startswith(line, VersionMarker) THEN lineno ELSE versionline
             r == IF startswith(line, ReleaseMarker) THEN lineno ELSE releaseline
         IN  IF v # NoLine /\ r # NoLine
             THEN [versionline |-> v, releaseline |-> r, scanned |-> lineno + 1]
             ELSE docScan(lines, lineno + 1, v, r)

\* Python's truth value of a line number or None.
truthy(x) == x # NoLine /\ x # 0

\* Python's "a and b".
pyAnd(a, b) == IF truthy(a) THEN b ELSE a

_update_doc_conf_file(lines, filename) ==
    LET s == docScan(lines, 0, NoLine, NoLine)
        l1 == IF s.versionline = NoLine THEN lines
              ELSE [lines EXCEPT ![s.versionline + 1] = DocVersionLine]
        l2 == IF s.releaseline = NoLine THEN l1
              ELSE [l1 EXCEPT ![s.releaseline + 1] = DocReleaseLine]
    IN  [lines |-> l2, found |-> pyAnd(s.versionline, s.releaseline)]

\* ------------------------------------------------------------------ FileUpdateService
\* A faulty _file_writer: it writes in a mock run too.
_file_writer_unconditional(lines, filename) ==
    [disk |-> [disk EXCEPT ![filename] = encode(join(lines))],
     writes |-> writes \cup {filename}]

\* _file_writer: the tree after it, and the files opened for writing after it.
_file_writer(lines, filename) ==
    IF mock_run THEN [disk |-> disk, writes |-> writes]
    ELSE [disk |-> [disk EXCEPT ![filename] = encode(join(lines))],
          writes |-> writes \cup {filename}]

NoCat == "none"
Categories == {"code", "tests", "docs", "includes"}

Enumerate(c) ==
    CASE c = "code" -> _get_code_files
      [] c = "tests" -> _get_test_files
      [] c = "docs" -> _get_doc_files
      [] c = "includes" -> _get_include_files
      [] OTHER -> <<>>

\* The category update invoked last has returned (or none was invoked).
Returned == pos >= Len(Enumerate(cat))

\* A faulty Raise: the exception is swallowed and the loop goes on with the
\* next file.
RaiseSkip(exception) ==
    /\ pos' = pos + 1
    /\ UNCHANGED <<disk, disk0, walk, bad, version, version_short, mock_run, pc,
                   updater, cat, calls, invoked, reads, writes, run, after, last>>

\* An exception leaves the loop and the caller: nothing runs after it.
Raise(exception) ==
    /\ pc' = exception
    /\ UNCHANGED <<disk, disk0, walk, bad, version, version_short, mock_run, updater,
                   cat, pos, calls, invoked, reads, writes, run, after, last>>

\* A faulty Finish: a miss leaves the loop instead of going on to the next file.
FinishBreak(filename, lines, found, write_out) ==
    LET w == IF write_out THEN _file_writer(lines, filename)
             ELSE [disk |-> disk, writes |-> writes]
    IN  /\ disk' = w.disk
        /\ writes' = w.writes
        /\ reads' = reads \cup {filename}
        /\ pos' = IF write_out THEN pos + 1 ELSE Len(Enumerate(cat))
        /\ last' = [file |-> filename, lines |-> lines, found |-> found]
        /\ UNCHANGED <<disk0, walk, bad, version, version_short, mock_run, pc, updater,
                       cat, calls, invoked, run, after>>

\* The rest of one iteration, after lines = open(filename).readlines() and the
\* rule: "if write_out: self._file_writer(lines, filename)".
Finish(filename, lines, found, write_out) ==
    LET w == IF write_out THEN _file_writer(lines, filename)
             ELSE [disk |-> disk, writes |-> writes]
    IN  /\ disk' = w.disk
        /\ writes' = w.writes
        /\ reads' = reads \cup {filename}
        /\ pos' = pos + 1
        /\ last' = [file |-> filename, lines |-> lines, found |-> found]
        /\ UNCHANGED <<disk0, walk, bad, version, version_short, mock_run, pc, updater,
                       cat, calls, invoked, run, after>>

Running(c) ==
    /\ updater
    /\ pc \in {"main", "api"}
    /\ cat = c
    /\ pos < Len(Enumerate(c))

\* One iteration of the loop of update_code_files.
update_code_files ==
    /\ Running("code")
    /\ LET filename == _get_code_files[pos + 1][1]
           filetype == _get_code_files[pos + 1][2]
           lines == readlines(disk[filename])
       IN  IF filename \in bad THEN Raise("IOError")
           ELSE IF filetype = "Python"
           THEN LET r == _update_python_file(lines, filename)
                IN  Finish(filename, r.lines, r.found, r.found)
           ELSE IF filetype = "Cython"
           THEN LET r == _update_cython_file(lines, filename)
                IN  Finish(filename, r.lines, r.found, r.found)
           ELSE IF filetype = "C"
           THEN LET r == _update_c_file(lines, filename)
                IN  Finish(filename, r.lines, r.found, r.found)
           ELSE Raise("TypeError")

\* One iteration of the loop of update_test_files.
update_test_files ==
    /\ Running("tests")
    /\ LET filename == _get_test_files[pos + 1][1]
           filetype == _get_test_files[pos + 1][2]
           lines == readlines(disk[filename])
       IN  IF filename \in bad THEN Raise("IOError")
           ELSE IF filetype = "Python"
           THEN LET r == _update_python_file(lines, filename)
                IN  Finish(filename, r.lines, r.found, r.found)
           ELSE Raise("TypeError")

\* One iteration of the loop of update_doc_files.
update_doc_files ==
    /\ Running("docs")
    /\ LET filename == _get_doc_files[pos + 1][1]
           lines == readlines(disk[filename])
       IN  IF filename \in bad THEN Raise("IOError")
           ELSE IF filename[2] = "conf" /\ endswith(filename, ".py")
           THEN LET r == _update_doc_conf_file(lines, filename)
                IN  Finish(filename, r.lines, r.found, truthy(r.found))
           ELSE Raise("TypeError")

\* One iteration of the loop of update_include_files.
update_include_files ==
    /\ Running("includes")
    /\ LET filename == _get_include_files[pos + 1][1]
           filetype == _get_include_files[pos + 1][2]
           lines == readlines(disk[filename])
       IN  IF filename \in bad THEN Raise("IOError")
           ELSE IF filetype = "Cython"
           THEN LET r == _update_cython_file(lines, filename)
                IN  Finish(filename, r.lines, r.found, r.found)
           ELSE IF filetype = "header"
           THEN LET r == _update_header_file(lines, filename)
                IN  Finish(filename, r.lines, r.found, r.found)
           ELSE Raise("TypeError")

\* ------------------------------------------------------------------ VersionUpdateFacade
\* A faulty __init__: it does not look for doc/conf.py.
init_without_doc_check ==
    IF CodeInit \in bad THEN "IOError"
    ELSE IF TestsInit \in bad THEN "IOError"
    ELSE "ok"

\* VersionUpdater.__init__: "ok", or the exception it raises.  os.access opens
\* no file.
__init__ ==
    IF CodeInit \in bad THEN "IOError"
    ELSE IF TestsInit \in bad THEN "IOError"
    ELSE IF DocConf \in bad THEN "IOError"
    ELSE "ok"

Construct(caller) ==
    /\ updater' = (__init__ = "ok")
    /\ pc' = IF __init__ = "ok" THEN caller ELSE __init__
    /\ UNCHANGED <<disk, disk0, walk, bad, version, version_short, mock_run,
                   cat, pos, calls, invoked, reads, writes, run, after, last>>

Invoke(c) ==
    /\ cat' = c
    /\ pos' = 0
    /\ calls' = Append(calls, c)
    /\ invoked' = invoked \cup {c}
    /\ UNCHANGED <<disk, disk0, walk, bad, version, version_short, mock_run, pc,
                   updater, reads, writes, run, after, last>>

\* ------------------------------------------------------------------ main
\* A faulty order of main's statements.
MainOrderSwapped == <<"code", "docs", "tests", "includes">>

MainOrder == <<"code", "tests", "docs", "includes">>

\* "if not version: ...; exit()"
main_no_version ==
    /\ pc = "start"
    /\ version = <<>>
    /\ pc' = "exit"
    /\ UNCHANGED <<disk, disk0, walk, bad, version, version_short, mock_run, updater,
                   cat, pos, calls, invoked, reads, writes, run, after, last>>

\* "updater = VersionUpdater(...)"
main_construct ==
    /\ pc = "start"
    /\ version # <<>>
    /\ Construct("main")

\* The next of the four "updater.update_..._files()" statements.
main_call ==
    /\ pc = "main"
    /\ Returned
    /\ Len(calls) < Len(MainOrder)
    /\ Invoke(MainOrder[Len(calls) + 1])

\* main returns after the fourth.
main_return ==
    /\ pc = "main"
    /\ Returned
    /\ Len(calls) = Len(MainOrder)
    /\ pc' = "done"
    /\ after' = IF run = 1 THEN disk ELSE after
    /\ UNCHANGED <<disk, disk0, walk, bad, version, version_short, mock_run, updater,
                   cat, pos, calls, invoked, reads, writes, run>>
    /\ UNCHANGED last

\* The command is run again on the same tree with the same arguments.
main_again ==
    /\ pc = "done"
    /\ run < MaxRuns
    /\ pc' = "start"
    /\ run' = run + 1
    /\ updater' = FALSE
    /\ cat' = NoCat
    /\ pos' = 0
    /\ calls' = <<>>
    /\ invoked' = {}
    /\ UNCHANGED <<disk, disk0, walk, bad, version, version_short, mock_run,
                   reads, writes, after, last>>

\* ------------------------------------------------------------------ the class used directly
api_construct ==
    /\ pc = "start"
    /\ Construct("api")

\* A direct user invokes the category updates it wants, each at most once, in
\* any order.
api_call(c) ==
    /\ pc = "api"
    /\ Returned
    /\ c \notin invoked
    /\ cat' = c
    /\ pos' = 0
    /\ invoked' = invoked \cup {c}
    /\ UNCHANGED <<disk, disk0, walk, bad, version, version_short, mock_run, pc,
                   updater, calls, reads, writes, run, after, last>>

\* ------------------------------------------------------------------ initial trees
Sep(marker) == IF marker = HeaderMarker THEN " " ELSE " = "
\* A line that carries the marker, with the old version.
Old(marker) == marker \o <<Sep(marker), "\"", "2.9", "\"", NL>>
\* The same as the last line of a file that does not end with a line terminator.
OldNoEol(marker) == marker \o <<Sep(marker), "\"", "2.9", "\"">>
\* A comment that mentions the marker and does not begin with it.
Comment(marker) == <<"# ">> \o marker \o <<NL>>

MarkerOf(f) ==
    IF endswith(f, ".h") \/ endswith(f, ".c") THEN HeaderMarker ELSE PyMarker

DocVersionOld == <<"version", " = ", "\"", "2.9", "\"", NL>>
DocReleaseOld == <<"release", " = ", "\"", "2.9.0", "\"", NL>>
DocOther == <<"project", " = ", "\"", "cogent3", "\"", NL>>

\* s with eol as its line terminator.
WithEol(s, eol) == [i \in 1..Len(s) |-> IF s[i] = NL THEN eol ELSE s[i]]

\* The files whose type has a marker line rule of its own.
MarkerFiles == {CodeInit, CodePyx, CodeC, TestsInit, IncPyx, IncHeader}

\* A file with the marker on its second and third lines, after a comment, and
\* a file without it.
Hit(f) == Comment(MarkerOf(f)) \o Old(MarkerOf(f)) \o Old(MarkerOf(f))
Miss(f) == Comment(MarkerOf(f))

ConfSamples ==
    {DocOther,
     DocVersionOld \o DocReleaseOld,
     DocOther \o DocVersionOld,
     DocOther \o DocReleaseOld \o DocVersionOld,
     DocVersionOld \o DocVersionOld \o DocReleaseOld}

\* The tree whose marker files all hold the same pattern of chunks, each in its
\* own marker: chunk 1 an old marker line, 2 a comment, 3 an old marker line
\* without a line terminator.
RECURSIVE Fill(_, _)
Fill(pattern, marker) ==
    IF pattern = <<>> THEN <<>>
    ELSE (CASE Head(pattern) = 1 -> Old(marker)
            [] Head(pattern) = 2 -> Comment(marker)
            [] OTHER -> OldNoEol(marker))
         \o Fill(Tail(pattern), marker)

Patterns == UNION {[1..n -> {1, 2, 3}] : n \in 0..MaxLines}

PatternTree(pattern, conf, eol) ==
    [f \in Files |->
        WithEol(IF f = DocConf THEN conf
                ELSE IF f = TestsData THEN Old(PyMarker)
                ELSE Fill(pattern, MarkerOf(f)), eol)]

\* The tree whose marker files in hit carry the marker, with conf as doc/conf.py
\* and eol as the line terminator of every file.
Tree(hit, conf, eol) ==
    [f \in Files |->
        WithEol(IF f = DocConf THEN conf
                ELSE IF f = TestsData THEN Old(PyMarker)
                ELSE IF f \in hit THEN Hit(f)
                ELSE Miss(f), eol)]

\* The trees main is run on: every choice of the marker files that carry the
\* marker, with a doc/conf.py that is rewritten, and every doc/conf.py of
\* ConfSamples, with the marker in every marker file.
Trees ==
    {<<hit, DocOther \o DocReleaseOld \o DocVersionOld>> : hit \in SUBSET MarkerFiles}
        \cup {<<MarkerFiles, conf>> : conf \in ConfSamples}

\* The full version and the short version given on the command line.
Configs ==
    {<<<<>>, <<>>>>,
     <<<<"3", ".", "0a2">>, <<"3.0">>>>,
     <<<<"3", NL, "0a2">>, <<>>>>}

InitRest ==
    /\ disk0 = disk
    /\ after = disk
    /\ \E c \in Configs : version = c[1] /\ version_short = c[2]
    /\ mock_run \in BOOLEAN
    /\ pc = "start"
    /\ updater = FALSE
    /\ cat = NoCat
    /\ pos = 0
    /\ calls = <<>>
    /\ invoked = {}
    /\ reads = {}
    /\ writes = {}
    /\ run = 1
    /\ last = [file |-> <<>>, lines |-> <<>>, found |-> FALSE]

Init ==
    /\ \E t \in Trees, eol \in {NL, CRLF} : disk = Tree(t[1], t[2], eol)
    /\ walk \in {Listing, [d \in Dirs |-> Reverse(Listing[d])]}
    /\ bad \in {{}} \cup {{f} : f \in Files}
    /\ InitRest

Next ==
    \/ main_no_version
    \/ main_construct
    \/ main_call
    \/ main_return
    \/ main_again
    \/ update_code_files
    \/ update_test_files
    \/ update_doc_files
    \/ update_include_files

Spec == Init /\ [][Next]_vars

\* The class used directly, on trees whose marker files hold every pattern of
\* at most MaxLines chunks.
InitApi ==
    /\ \E pattern \in Patterns, eol \in {NL, CRLF} :
          disk = PatternTree(pattern, DocOther \o DocReleaseOld \o DocVersionOld, eol)
    /\ walk = Listing
    /\ bad \in {{}, {CodeInit}, {CodePyx}}
    /\ InitRest

NextApi ==
    \/ api_construct
    \/ \E c \in Categories : api_call(c)
    \/ update_code_files
    \/ update_test_files
    \/ update_doc_files
    \/ update_include_files

SpecApi == InitApi /\ [][NextApi]_vars

\* ------------------------------------------------------------------ vocabulary of the claims
Range(s) == {s[i] : i \in 1..Len(s)}

\* The text holds no line terminator.
OneLine(text) == NL \notin Range(text)

\* Every line terminator of the content is the platform's.
PlatformEol(s) == \A i \in 1..Len(s) : s[i] \in {NL, CRLF} => s[i] = linesep

\* The 0-based numbers of the lines that begin with marker.
Matches(lines, marker) == {i \in 0..(Len(lines) - 1) : startswith(lines[i + 1], marker)}

Lowest(S) == CHOOSE i \in S : \A j \in S : i <= j

FilesOf(c) == {Enumerate(c)[i][1] : i \in 1..Len(Enumerate(c))}

TypeOf(c, f) == (CHOOSE e \in Range(Enumerate(c)) : e[1] = f)[2]

\* The update of category c was invoked and its loop ran to the end.
Done(c) == c \in invoked /\ (cat = c => Returned)

\* The file the loop of the running category is at.
Current == Enumerate(cat)[pos + 1][1]

\* The files main's four updates enumerate, in the order they enumerate them.
RunOrder ==
    _get_code_files \o _get_test_files \o _get_doc_files \o _get_include_files

TypeMarker(type) ==
    IF type \in {"header", "C"} THEN <<"#define PYCOGENT_VERSION">> ELSE <<"__version__">>

\* str(tuple(version.split("."))) as Python prints it, for the versions of Configs.
TupleText ==
    CASE version = <<>> -> <<"(", "'", "'", ",)">>
      [] version = <<"3", ".", "0a2">> -> <<"(", "'", "3", "'", ", ", "'", "0a2", "'", ")">>
      [] version = <<"3", NL, "0a2">> -> <<"(", "'", "3", "\\\\n", "0a2", "'", ",)">>

\* The line the claims expect in place of a marker line of a file of the type.
ExpectedLine(type) ==
    CASE type = "Python" -> <<"__version__", " = ", "\"">> \o version \o <<"\"", NL>>
      [] type = "Cython" -> <<"__version__", " = ", "\"">> \o TupleText \o <<"\"", NL>>
      [] OTHER -> <<"#define PYCOGENT_VERSION", " ", "\"">> \o version \o <<"\"", NL>>

ExpectedVersion == <<"version", " = ", "\"">> \o version_short \o <<"\"", NL>>
ExpectedRelease == <<"release", " = ", "\"">> \o version \o <<"\"", NL>>

\* lines with its first line that begins with the type's marker replaced.
FirstReplaced(lines, type) ==
    [lines EXCEPT ![Lowest(Matches(lines, TypeMarker(type))) + 1] = ExpectedLine(type)]

\* new is old with exactly the first marker line replaced by the expected line.
OnlyFirstRewritten(old, new, type) ==
    /\ Len(new) = Len(old)
    /\ \A k \in 1..Len(old) :
          new[k] = IF k - 1 = Lowest(Matches(old, TypeMarker(type)))
                   THEN ExpectedLine(type) ELSE old[k]

MarkerCategories == {"code", "tests", "includes"}

\* ------------------------------------------------------------------ C2
\* The statement of C2 for the files of category c: after a non-mock update of
\* c, a file that had a marker line differs from its content before the update
\* in its first marker line only, which is the expected line.
FirstMarkerOnly(c, f) ==
    LET old == splitlines(disk0[f])
        new == splitlines(disk[f])
    IN  Matches(old, TypeMarker(TypeOf(c, f))) # {}
            => OnlyFirstRewritten(old, new, TypeOf(c, f))

\* C2 as stated: for every file of the code, tests or includes category that
\* has a marker line, after a non-mock update of the category exactly the FIRST
\* marker line is replaced by the expected line and every other line and the
\* number of lines are unchanged.
C2_AsStated ==
    \A c \in MarkerCategories :
        (Done(c) /\ ~mock_run) => \A f \in FilesOf(c) : FirstMarkerOnly(c, f)

\* C2 (amended): the same, for the files whose line ends are the platform's,
\* when the version holds no line terminator or the file is a .pyx file.
C2_FirstMarkerLineOnly ==
    \A c \in MarkerCategories :
        (Done(c) /\ ~mock_run) =>
            \A f \in FilesOf(c) :
                (/\ PlatformEol(disk0[f])
                 /\ (TypeOf(c, f) = "Cython" \/ OneLine(version))) => FirstMarkerOnly(c, f)

\* A .c file with three lines, the first a comment and the other two marker
\* lines, was rewritten by a non-mock update_code_files.
C2_Witness ==
    /\ Done("code")
    /\ ~mock_run
    /\ OneLine(version)
    /\ CodeC \in writes
    /\ PlatformEol(disk0[CodeC])
    /\ Matches(splitlines(disk0[CodeC]), HeaderMarker) = {1, 2}
    /\ disk[CodeC] # disk0[CodeC]

\* ------------------------------------------------------------------ C1
\* C1 as stated, on what is on disk after a non-mock update_doc_files (with a
\* version of one line and the platform's line ends in conf.py): if conf.py
\* had a line beginning with "version", such a line now is the expected
\* version line, and if it had a line beginning with "release", such a line
\* now is the expected release line, whether or not the other one is present.
C1_AsStated ==
    (run = 1 /\ Done("docs") /\ ~mock_run /\ OneLine(version)
        /\ PlatformEol(disk0[DocConf])) =>
        LET old == splitlines(disk0[DocConf])
            new == splitlines(disk[DocConf])
        IN  /\ Matches(old, <<"version">>) # {} =>
                  \E i \in Matches(old, <<"version">>) :
                      i < Len(new) /\ new[i + 1] = ExpectedVersion
            /\ Matches(old, <<"release">>) # {} =>
                  \E i \in Matches(old, <<"release">>) :
                      i < Len(new) /\ new[i + 1] = ExpectedRelease

\* ------------------------------------------------------------------ C3
\* Whether the lines hold a line the rule of file f of category c looks for.
HasOwnMarker(c, f, lines) ==
    IF c = "docs"
    THEN Matches(lines, <<"version">>) \cup Matches(lines, <<"release">>) # {}
    ELSE Matches(lines, IF endswith(f, ".h") \/ endswith(f, ".c")
                        THEN <<"#define PYCOGENT_VERSION">> ELSE <<"__version__">>) # {}

\* The rule applied last was applied to f and returned a true "found".
FoundIn(c, f) ==
    last.file = f /\ (IF c = "docs" THEN truthy(last.found) ELSE last.found)

\* C3: an enumerated file that has no line matching its type's marker is never
\* opened for writing, its content stays what it was before the run, and the
\* rule applied to it returns a false "found".  (Stated by contraposition: a
\* file that was opened for writing or changed, or for which the rule returned
\* a true "found", had a matching line.)
C3_MissLeavesFileUntouched ==
    \A c \in Categories :
        \A i \in 1..Len(Enumerate(c)) :
            LET f == Enumerate(c)[i][1]
            IN  (f \in writes \/ disk[f] # disk0[f] \/ FoundIn(c, f)) =>
                    HasOwnMarker(c, f, readlines(disk0[f]))

\* The .c file without a marker was the last one read, in a non-mock run that
\* has rewritten another file of the same category.
C3_Witness ==
    /\ ~mock_run
    /\ last.file = CodeC
    /\ CodeC \in reads
    /\ Matches(readlines(disk0[CodeC]), HeaderMarker) = {}
    /\ CodeInit \in writes

\* ------------------------------------------------------------------ C4
\* C4: with mock_run set, in every state of every sequence of category updates
\* every file on disk has the content it had before, and none was opened for
\* writing.
C4_DryRunWritesNothing ==
    mock_run => (disk = disk0 /\ writes = {})

\* A mock run has finished all four category updates and has read a file that
\* carries its marker.
C4_Witness ==
    /\ mock_run
    /\ invoked = Categories
    /\ Returned
    /\ CodeInit \in reads
    /\ Matches(readlines(disk0[CodeInit]), PyMarker) # {}

\* ------------------------------------------------------------------ C5
\* C5 as stated: for every version, in a later run of main with the same
\* arguments the tree is what the first run left.
C5_AsStated ==
    run >= 2 => disk = after

\* C5 (amended): the same when neither version nor version_short holds a line
\* terminator.
C5_Idempotent ==
    (run >= 2 /\ OneLine(version) /\ OneLine(version_short)) => disk = after

\* A second non-mock run has ended after the first one rewrote files.
C5_Witness ==
    /\ run = 2
    /\ pc = "done"
    /\ ~mock_run
    /\ OneLine(version)
    /\ {CodeInit, CodePyx, CodeC, DocConf, IncHeader} \subseteq writes
    /\ disk # disk0

\* ------------------------------------------------------------------ C6
\* The content of a rewritten file of the given type whose lines were old.
Rewritten(old, type) == encode(join(FirstReplaced(old, type)))

\* C6: a miss raises nothing (only an unreadable file ends a category update
\* early), so once a non-mock category update has returned, every file of the
\* category that had a marker line has been rewritten.
C6_MissIsNotFatal ==
    /\ pc # "TypeError"
    /\ (pc = "IOError" /\ updater) => Current \in bad
    /\ \A c \in MarkerCategories :
          (run = 1 /\ Done(c) /\ ~mock_run) =>
              \A i \in 1..Len(Enumerate(c)) :
                  LET f == Enumerate(c)[i][1]
                      type == Enumerate(c)[i][2]
                      old == readlines(disk0[f])
                  IN  Matches(old, TypeMarker(type)) # {} =>
                          /\ f \in writes
                          /\ disk[f] = Rewritten(old, type)

\* update_code_files has returned in a non-mock run in which the first two
\* files it enumerated had no marker and the third had one.
C6_Witness ==
    /\ run = 1
    /\ Done("code")
    /\ ~mock_run
    /\ LET e == _get_code_files
       IN  /\ Matches(readlines(disk0[e[1][1]]), TypeMarker(e[1][2])) = {}
           /\ Matches(readlines(disk0[e[2][1]]), TypeMarker(e[2][2])) = {}
           /\ Matches(readlines(disk0[e[3][1]]), TypeMarker(e[3][2])) # {}
           /\ e[3][1] \in writes

\* ------------------------------------------------------------------ C7
\* How many files of RunOrder the loops of main's updates have consumed.
Offset(c) ==
    CASE c = "code" -> 0
      [] c = "tests" -> Len(_get_code_files)
      [] c = "docs" -> Len(_get_code_files) + Len(_get_test_files)
      [] c = "includes" -> Len(_get_code_files) + Len(_get_test_files) + Len(_get_doc_files)
      [] OTHER -> 0

Progress == Offset(cat) + pos

\* C7: no loop gets past a file that cannot be read; when reading one fails the
\* error leaves the run there, no file enumerated after it (in that category or
\* a later one) has been read or written, and every file rewritten before it
\* keeps its updated content.
C7_UnreadableIsFatal ==
    /\ \A i \in 1..Progress : RunOrder[i][1] \notin bad
    /\ (pc = "IOError" /\ updater) =>
          /\ Current \in bad
          /\ Current \notin reads \cup writes
          /\ \A i \in (Progress + 1)..Len(RunOrder) :
                LET f == RunOrder[i][1]
                IN  f \notin reads /\ f \notin writes /\ disk[f] = disk0[f]
          /\ \A i \in 1..Progress :
                LET f == RunOrder[i][1]
                    old == readlines(disk0[f])
                IN  (/\ ~mock_run
                     /\ f # DocConf
                     /\ Matches(old, TypeMarker(RunOrder[i][2])) # {}) =>
                        /\ f \in writes
                        /\ disk[f] = Rewritten(old, RunOrder[i][2])

\* Reading the second file of the code category failed in a non-mock run after
\* the first was rewritten, with files that carry a marker still to come.
C7_Witness ==
    /\ pc = "IOError"
    /\ updater
    /\ ~mock_run
    /\ cat = "code"
    /\ pos = 1
    /\ _get_code_files[1][1] \in writes
    /\ disk[_get_code_files[1][1]] # disk0[_get_code_files[1][1]]
    /\ Matches(readlines(disk0[_get_code_files[3][1]]), TypeMarker(_get_code_files[3][2])) # {}
    /\ Matches(readlines(disk0[TestsInit]), PyMarker) # {}

\* ------------------------------------------------------------------ C8
\* C8: when one of src/cogent3/__init__.py, tests/__init__.py and doc/conf.py
\* is missing or unreadable, no updater ever exists, the construction main
\* attempts ends in IOError, and no file is read or written.
C8_ConstructionValidatesLayout ==
    (bad \cap {CodeInit, TestsInit, DocConf} # {}) =>
        /\ ~updater
        /\ pc \in {"start", "exit", "IOError"}
        /\ pc = "exit" => version = <<>>
        /\ cat = NoCat
        /\ reads = {}
        /\ writes = {}
        /\ disk = disk0

\* The constructor has raised IOError for a missing doc/conf.py.
C8_Witness ==
    /\ pc = "IOError"
    /\ ~updater
    /\ bad = {DocConf}

\* ------------------------------------------------------------------ C9
\* C9: main invokes the category updates in the order code, tests, docs,
\* includes, each once and each after the one before it has consumed all its
\* files, none of a later category's files being read before; main is done
\* only after all four; with an empty version nothing is constructed, invoked,
\* read or written.
C9_MainOrder ==
    /\ Len(calls) <= 4
    /\ calls = SubSeq(<<"code", "tests", "docs", "includes">>, 1, Len(calls))
    /\ cat = IF calls = <<>> THEN NoCat ELSE calls[Len(calls)]
    /\ pc = "done" => (calls = <<"code", "tests", "docs", "includes">> /\ Returned)
    /\ run = 1 =>
          \A i \in 1..Len(RunOrder) :
              /\ i <= Offset(cat) => RunOrder[i][1] \in reads
              /\ i > Progress => RunOrder[i][1] \notin reads
    /\ version = <<>> =>
          /\ ~updater
          /\ pc \in {"start", "exit"}
          /\ calls = <<>>
          /\ reads = {}
          /\ writes = {}
          /\ disk = disk0

\* main has returned from a first non-mock run that rewrote files.
C9_Witness ==
    /\ pc = "done"
    /\ run = 1
    /\ ~mock_run
    /\ calls = <<"code", "tests", "docs", "includes">>
    /\ writes # {}

\* ------------------------------------------------------------------ C10
\* C10 as stated, on the buffer the docs rule returns for conf.py in the first
\* run: the lowest-numbered line beginning with "version" is the expected
\* version line, the lowest-numbered line beginning with "release" is the
\* expected release line, and when both exist the scan ends at the later of
\* the two.
C10_AsStated ==
    (run = 1 /\ last.file = DocConf) =>
        LET old == readlines(disk0[DocConf])
            V == Matches(old, <<"version">>)
            R == Matches(old, <<"release">>)
        IN  /\ V # {} => last.lines[Lowest(V) + 1] = ExpectedVersion
            /\ R # {} => last.lines[Lowest(R) + 1] = ExpectedRelease
            /\ (V # {} /\ R # {}) =>
                  docScan(old, 0, NoLine, NoLine).scanned
                      = 1 + (IF Lowest(V) > Lowest(R) THEN Lowest(V) ELSE Lowest(R))

====
